---------------------------- MODULE Spec2Model ----------------------------
(***************************************************************************)
(* Model of the delivery simulation engine                                 *)
(* (backend/src/services/simulationService.ts, models/Route.ts,            *)
(* models/Order.ts, models/Driver.ts).                                     *)
(*                                                                         *)
(* Units.  Money is held in tenths of a rupee, so that the bonus           *)
(* order.value * 0.1 of an integer order value is exact.  Hours are held   *)
(* in minutes (totalHours * 60), so that adjustedTime / 60 is exact.       *)
(* Scores are held in tenths (score * 10), so that totalDistance * 0.1 is  *)
(* exact.  Instants are minutes since midnight of day 0; the server's      *)
(* local time zone is taken to be UTC.                                     *)
(***************************************************************************)
EXTENDS Integers, Sequences, FiniteSets, TLC

VARIABLES
    pc,             \* position of the run inside runSimulation
    input,          \* the SimulationInput passed to runSimulation
    fetched,        \* outcome of the queries: "no" (not issued), "ok", "failed"
    drivers,        \* fetched drivers: Driver.find().limit(availableDrivers)
    routes,         \* fetched routes: Route.find()
    orders,         \* fetched orders: Order.find({ isDelivered: false })
    startTime,      \* the Date built at lines 69-71, in minutes
    assignments,    \* DriverAssignment[] built by assignOrdersToDrivers
    sortedOrders,   \* the deadline-sorted copy of orders
    idx,            \* position of the for-loop in sortedOrders
    orderResults,   \* OrderResult[] built by calculateOrderResults
    result,         \* <<>> or <<the SimulationResult the promise resolves to>>
    thrown,         \* <<>> or <<the error caught at line 99>>
    error,          \* <<>> or <<the error the promise rejects with>>
    other,          \* the locals of a second, overlapping call of runSimulation
    store,          \* the Route and Order collections of the database
    answered        \* the queries of lines 54-58 that have been answered one by one

vars == <<pc, input, fetched, drivers, routes, orders, startTime, assignments,
          sortedOrders, idx, orderResults, result, thrown, error, other,
          store, answered>>

-----------------------------------------------------------------------------
(* Bounds of the model *)

MaxDrivers == 2
MaxOrders == 2

(* Amount of n rupees, in tenths of a rupee *)
Rupees(n) == n * 10

SeqsUpTo(S, n) == UNION { [1..k -> S] : k \in 0..n }

Min(S) == CHOOSE x \in S : \A y \in S : x <= y
Max(S) == CHOOSE x \in S : \A y \in S : x >= y

Digits == <<"0", "1", "2", "3", "4", "5", "6", "7", "8", "9">>

IsDigitIn(c, lo, hi) == \E d \in lo..hi : Digits[d + 1] = c

DigitValue(c) == CHOOSE d \in 0..9 : Digits[d + 1] = c

-----------------------------------------------------------------------------
(* Inputs *)

(* Start-time strings, as sequences of characters *)
StartTimes ==
    { <<"0", "8", ":", "0", "0">>,      \* "08:00"
      <<"8", ":", "0", "0">>,           \* "8:00"
      <<"2", "5", ":", "0", "0">>,      \* "25:00"
      <<"2", "4", ":", "0", "0">>,      \* "24:00"
      <<"0", "8", ":", "6", "0">>,      \* "08:60"
      <<"0", "8", "0", "0">>,           \* "0800"
      <<"8", ":", "0">>,                \* "8:0"
      <<>> }                            \* ""

AvailableDriversValues == {0 - 1, 0, 1, 2}

MaxHoursValues == {0, 1, 3, 25}

Inputs ==
    [availableDrivers : AvailableDriversValues,
     startTime : StartTimes,
     maxHoursPerDay : MaxHoursValues]

(* Drivers of the store (models/Driver.ts): name and currentShiftHours *)
DriverPool ==
    { [name |-> "Asha", currentShiftHours |-> 8],
      [name |-> "Asha", currentShiftHours |-> 9],
      [name |-> "Ravi", currentShiftHours |-> 6] }

(* Routes of the store (models/Route.ts) *)
RouteCatalogue ==
    << [routeId |-> "R001", distance |-> 25, trafficLevel |-> "Medium", baseTime |-> 45],
       [routeId |-> "R002", distance |-> 50, trafficLevel |-> "High", baseTime |-> 60] >>

RouteIds == { RouteCatalogue[k].routeId : k \in DOMAIN RouteCatalogue }

(* The route collections a fetch can yield: any part of the catalogue *)
RECURSIVE SelectRoutes(_, _)
SelectRoutes(cat, keep) ==
    IF cat = <<>> THEN <<>>
    ELSE LET rest == SelectRoutes(Tail(cat), keep)
         IN  IF Head(cat).routeId \in keep THEN <<Head(cat)>> \o rest ELSE rest

RouteCollections == { SelectRoutes(RouteCatalogue, keep) : keep \in SUBSET RouteIds }

(* Days on which a run can execute (the date part of new Date()) *)
Days == {0, 1}

(* Delivery deadlines: 08:54 of day 0 and 10:00 of day 1 *)
Deadlines == { 8 * 60 + 54, 24 * 60 + 10 * 60 }

OrderValues == { Rupees(1000), Rupees(1005) }

OrderPool ==
    [value : OrderValues, assignedRoute : RouteIds, deliveryTimestamp : Deadlines]

(* orderId is unique in the store (models/Order.ts: unique: true) *)
WithOrderIds(os) ==
    [k \in DOMAIN os |->
        [orderId |-> k, value |-> os[k].value,
         assignedRoute |-> os[k].assignedRoute,
         deliveryTimestamp |-> os[k].deliveryTimestamp]]

WithDriverIds(ds) ==
    [k \in DOMAIN ds |->
        [id |-> k, name |-> ds[k].name,
         currentShiftHours |-> ds[k].currentShiftHours]]

(* Errors the data-access collaborator can fail with; a thrown value that
   is not an Error has isError = FALSE *)
FetchErrors ==
    { [isError |-> TRUE, message |-> "connect ECONNREFUSED"],
      [isError |-> FALSE, message |-> ""] }

MkError(msg) == [isError |-> TRUE, message |-> msg]

-----------------------------------------------------------------------------
(* models/Route.ts virtuals *)

(* Variant of FuelCost without the high-traffic surcharge *)
FuelCostWithoutSurcharge(route) == route.distance * Rupees(5)

FuelCost(route) ==
    LET baseCost == route.distance * Rupees(5)
        surcharge == IF route.trafficLevel = "High"
                     THEN route.distance * Rupees(2) ELSE 0
    IN  baseCost + surcharge

(* trafficMultipliers, times 10 *)
TrafficMultiplier(level) ==
    CASE level = "Low" -> 10
      [] level = "Medium" -> 12
      [] level = "High" -> 15

(* Math.round(n / d) for n >= 0, d > 0: round half up *)
RoundDiv(n, d) == (2 * n + d) \div (2 * d)

(* Variant of AdjustedTime that truncates instead of rounding *)
AdjustedTimeTruncated(route) ==
    (route.baseTime * TrafficMultiplier(route.trafficLevel)) \div 10

AdjustedTime(route) ==
    RoundDiv(route.baseTime * TrafficMultiplier(route.trafficLevel), 10)


-----------------------------------------------------------------------------
(* SimulationService.validateSimulationInput *)

(* /^([01]?[0-9]|2[0-3]):[0-5][0-9]$/.test(s); h is the number of
   characters the hour group takes *)
TimeRegexHour(s, h) ==
    \/ h = 1 /\ IsDigitIn(s[1], 0, 9)
    \/ h = 2 /\ IsDigitIn(s[1], 0, 1) /\ IsDigitIn(s[2], 0, 9)
    \/ h = 2 /\ s[1] = "2" /\ IsDigitIn(s[2], 0, 3)

TimeRegexTest(s) ==
    \E h \in 1..2 :
        /\ Len(s) = h + 3
        /\ TimeRegexHour(s, h)
        /\ s[h + 1] = ":"
        /\ IsDigitIn(s[h + 2], 0, 5)
        /\ IsDigitIn(s[h + 3], 0, 9)

(* Variant of ValidateSimulationInput without the upper limit of
   maxHoursPerDay *)
ValidateSimulationInputNoUpperLimit(in) ==
    IF in.availableDrivers <= 0
    THEN <<"Available drivers must be greater than 0">>
    ELSE IF in.maxHoursPerDay <= 0
    THEN <<"Max hours per day must be between 1 and 24">>
    ELSE IF ~TimeRegexTest(in.startTime)
    THEN <<"Start time must be in HH:MM format">>
    ELSE <<>>

(* <<>> when the input passes, else <<the message of the Error thrown>> *)
ValidateSimulationInput(in) ==
    IF in.availableDrivers <= 0
    THEN <<"Available drivers must be greater than 0">>
    ELSE IF in.maxHoursPerDay <= 0 \/ in.maxHoursPerDay > 24
    THEN <<"Max hours per day must be between 1 and 24">>
    ELSE IF ~TimeRegexTest(in.startTime)
    THEN <<"Start time must be in HH:MM format">>
    ELSE <<>>

-----------------------------------------------------------------------------
(* runSimulation, lines 68-71: the start Date *)

(* Number(digits) for a string of decimal digits *)
RECURSIVE ParseNumber(_)
ParseNumber(s) ==
    IF s = <<>> THEN 0
    ELSE 10 * ParseNumber(SubSeq(s, 1, Len(s) - 1)) + DigitValue(s[Len(s)])

(* s.split(':') of a string with one colon *)
SplitAtColon(s) ==
    LET c == Min({ k \in 1..Len(s) : s[k] = ":" })
    IN  << SubSeq(s, 1, c - 1), SubSeq(s, c + 1, Len(s)) >>

(* new Date() on day `day`, then setHours(startHour, startMinute, 0, 0) *)
StartDate(day, s) ==
    LET parts == SplitAtColon(s)
        startHour == ParseNumber(parts[1])
        startMinute == ParseNumber(parts[2])
    IN  day * 24 * 60 + startHour * 60 + startMinute

-----------------------------------------------------------------------------
(* SimulationService.assignOrdersToDrivers and its helpers *)

(* Variant of InitialAssignments in which 8 shift hours already count as
   fatigue *)
InitialAssignmentsFromEight(ds) ==
    [k \in DOMAIN ds |->
        [driverId |-> ds[k].id,
         driverName |-> ds[k].name,
         assignedOrders |-> <<>>,
         totalHours |-> 0,
         totalDistance |-> 0,
         isFatigued |-> ds[k].currentShiftHours >= 8]]

InitialAssignments(ds) ==
    [k \in DOMAIN ds |->
        [driverId |-> ds[k].id,
         driverName |-> ds[k].name,
         assignedOrders |-> <<>>,
         totalHours |-> 0,
         totalDistance |-> 0,
         isFatigued |-> ds[k].currentShiftHours > 8]]

(* [...orders].sort by deliveryTimestamp; Array.prototype.sort is stable *)
(* Variant of InsertByDeadline that puts an order before those of equal
   deadline (a sort that is not stable) *)
InsertByDeadlineBeforeTies(s, o) ==
    LET k == Cardinality({ j \in DOMAIN s :
                            s[j].deliveryTimestamp < o.deliveryTimestamp })
    IN  SubSeq(s, 1, k) \o <<o>> \o SubSeq(s, k + 1, Len(s))

InsertByDeadline(s, o) ==
    LET k == Cardinality({ j \in DOMAIN s :
                            s[j].deliveryTimestamp <= o.deliveryTimestamp })
    IN  SubSeq(s, 1, k) \o <<o>> \o SubSeq(s, k + 1, Len(s))

RECURSIVE SortOrders(_)
SortOrders(os) ==
    IF os = <<>> THEN <<>>
    ELSE InsertByDeadline(SortOrders(SubSeq(os, 1, Len(os) - 1)), os[Len(os)])

(* routeMap = new Map(routes.map(route => [route.routeId, route])) *)
RouteMapHas(rs, id) == \E k \in DOMAIN rs : rs[k].routeId = id

RouteMapGet(rs, id) == rs[Max({ k \in DOMAIN rs : rs[k].routeId = id })]

(* Variant of CanDriverHandleOrder without the hour check *)
CanDriverHandleOrderAlways(assignment, route, maxHoursPerDay) == TRUE

(* Variant of CanDriverHandleOrder that refuses an order which fills the
   day exactly *)
CanDriverHandleOrderBelowLimit(assignment, route, maxHoursPerDay) ==
    LET additionalHours == AdjustedTime(route)
    IN  ~(assignment.totalHours + additionalHours >= maxHoursPerDay * 60)

(* maxHoursPerDay is compared in minutes *)
CanDriverHandleOrder(assignment, route, maxHoursPerDay) ==
    LET additionalHours == AdjustedTime(route)
    IN  ~(assignment.totalHours + additionalHours > maxHoursPerDay * 60)

(* Variant of CalculateDriverScore without the floor at 0 *)
CalculateDriverScoreUnfloored(assignment, route) ==
    LET s0 == 1000
        s1 == IF assignment.isFatigued THEN s0 - 300 ELSE s0
        s2 == s1 - Len(assignment.assignedOrders) * 50
    IN  s2 - assignment.totalDistance

(* the score, times 10 *)
CalculateDriverScore(assignment, route) ==
    LET s0 == 1000
        s1 == IF assignment.isFatigued THEN s0 - 300 ELSE s0
        s2 == s1 - Len(assignment.assignedOrders) * 50
        s3 == s2 - assignment.totalDistance
    IN  Max({0, s3})

(* Variant of ScanDrivers in which a later driver of equal score replaces
   the best one *)
RECURSIVE ScanDriversLastWins(_, _, _, _, _, _)
ScanDriversLastWins(as, route, maxHoursPerDay, k, bestDriver, bestScore) ==
    IF k > Len(as) THEN bestDriver
    ELSE IF CanDriverHandleOrder(as[k], route, maxHoursPerDay)
            /\ CalculateDriverScore(as[k], route) >= bestScore
         THEN ScanDriversLastWins(as, route, maxHoursPerDay, k + 1, k,
                                  CalculateDriverScore(as[k], route))
         ELSE ScanDriversLastWins(as, route, maxHoursPerDay, k + 1,
                                  bestDriver, bestScore)

(* the inner for-loop, lines 155-174: the index of bestDriver, 0 for null *)
RECURSIVE ScanDrivers(_, _, _, _, _, _)
ScanDrivers(as, route, maxHoursPerDay, k, bestDriver, bestScore) ==
    IF k > Len(as) THEN bestDriver
    ELSE IF CanDriverHandleOrder(as[k], route, maxHoursPerDay)
            /\ CalculateDriverScore(as[k], route) > bestScore
         THEN ScanDrivers(as, route, maxHoursPerDay, k + 1, k,
                          CalculateDriverScore(as[k], route))
         ELSE ScanDrivers(as, route, maxHoursPerDay, k + 1, bestDriver, bestScore)

BestDriver(as, route, maxHoursPerDay) ==
    ScanDrivers(as, route, maxHoursPerDay, 1, 0, 0 - 10)

(* Variant of AssignTo in which the drivers share one assignedOrders array *)
AssignToShared(as, b, order, route) ==
    [k \in DOMAIN as |->
        IF k = b
        THEN [as[k] EXCEPT !.assignedOrders = Append(@, order.orderId),
                           !.totalHours = @ + AdjustedTime(route),
                           !.totalDistance = @ + route.distance]
        ELSE [as[k] EXCEPT !.assignedOrders = Append(@, order.orderId)]]

(* lines 176-181 *)
AssignTo(as, b, order, route) ==
    [as EXCEPT ![b] =
        [@ EXCEPT !.assignedOrders = Append(@, order.orderId),
                  !.totalHours = @ + AdjustedTime(route),
                  !.totalDistance = @ + route.distance]]

-----------------------------------------------------------------------------
(* SimulationService.calculateDeliveryTime, calculateOrderResults *)

(* Date.prototype.setMinutes truncates its argument to an integer *)
CalculateDeliveryTime(start, route, isFatigued) ==
    LET adjustedTime == IF isFatigued
                        THEN (AdjustedTime(route) * 13) \div 10
                        ELSE AdjustedTime(route)
    IN  start + adjustedTime

(* driverAssignments.find(d => d.assignedOrders.includes(orderId)):
   the index of the first such driver, 0 for undefined *)
FindAssignedDriver(as, orderId) ==
    LET holders == { k \in DOMAIN as :
                       \E j \in DOMAIN as[k].assignedOrders :
                           as[k].assignedOrders[j] = orderId }
    IN  IF holders = {} THEN 0 ELSE Min(holders)

(* Variant of DriverFatigue whose default for no driver is true *)
DriverFatigueDefaultTrue(as, d) == IF d = 0 THEN TRUE ELSE as[d].isFatigued

(* assignedDriver?.isFatigued || false, d the index of the driver found *)
DriverFatigue(as, d) == IF d = 0 THEN FALSE ELSE as[d].isFatigued

(* Variant of IsOnTime with a strict comparison *)
IsOnTimeStrict(deliveryTime, expectedDelivery) == deliveryTime < expectedDelivery

IsOnTime(deliveryTime, expectedDelivery) == deliveryTime <= expectedDelivery

(* Variant of Bonus that also rewards an order of exactly 1000 *)
BonusInclusive(value, isOnTime) ==
    IF value >= Rupees(1000) /\ isOnTime THEN value \div 10 ELSE 0

Bonus(value, isOnTime) ==
    IF value > Rupees(1000) /\ isOnTime THEN value \div 10 ELSE 0

Penalty(isOnTime) == IF isOnTime THEN 0 ELSE Rupees(50)

(* Variant of Profit that forgets the fuel cost *)
ProfitWithoutFuel(value, bonus, penalty, fuelCost) == value + bonus - penalty

Profit(value, bonus, penalty, fuelCost) == value + bonus - penalty - fuelCost

(* Variant of OrderResultOf that times an order which is not the first of
   its driver's list from the end of the driver's other deliveries *)
OrderResultOfAfterLoad(order, rs, as, start) ==
    LET route == RouteMapGet(rs, order.assignedRoute)
        d == FindAssignedDriver(as, order.orderId)
        load == IF d # 0 /\ as[d].assignedOrders[1] # order.orderId
                THEN as[d].totalHours - AdjustedTime(route) ELSE 0
        deliveryTime == CalculateDeliveryTime(start + load, route,
                                              DriverFatigue(as, d))
        isOnTime == IsOnTime(deliveryTime, order.deliveryTimestamp)
        fuelCost == FuelCost(route)
        penalty == Penalty(isOnTime)
        bonus == Bonus(order.value, isOnTime)
        profit == Profit(order.value, bonus, penalty, fuelCost)
    IN  [orderId |-> order.orderId,
         assignedDriver |-> IF d = 0 \/ as[d].driverName = ""
                            THEN "Unassigned" ELSE as[d].driverName,
         routeId |-> order.assignedRoute,
         orderValue |-> order.value,
         deliveryStatus |-> IF isOnTime THEN "On Time" ELSE "Late",
         fuelCost |-> fuelCost,
         penalty |-> penalty,
         bonus |-> bonus,
         profit |-> profit]

OrderResultOf(order, rs, as, start) ==
    LET route == RouteMapGet(rs, order.assignedRoute)
        d == FindAssignedDriver(as, order.orderId)
        deliveryTime == CalculateDeliveryTime(start, route,
                                              DriverFatigue(as, d))
        isOnTime == IsOnTime(deliveryTime, order.deliveryTimestamp)
        fuelCost == FuelCost(route)
        penalty == Penalty(isOnTime)
        bonus == Bonus(order.value, isOnTime)
        profit == Profit(order.value, bonus, penalty, fuelCost)
    IN  [orderId |-> order.orderId,
         assignedDriver |-> IF d = 0 \/ as[d].driverName = ""
                            THEN "Unassigned" ELSE as[d].driverName,
         routeId |-> order.assignedRoute,
         orderValue |-> order.value,
         deliveryStatus |-> IF isOnTime THEN "On Time" ELSE "Late",
         fuelCost |-> fuelCost,
         penalty |-> penalty,
         bonus |-> bonus,
         profit |-> profit]

(* the orders whose route the map lacks: orders.map throws at the first *)
UnroutedOrders(os, rs) ==
    { k \in DOMAIN os : ~RouteMapHas(rs, os[k].assignedRoute) }

-----------------------------------------------------------------------------
(* SimulationService.calculateKPIs *)

RECURSIVE SumOver(_, _)
SumOver(rs, field) ==
    IF rs = <<>> THEN 0
    ELSE SumOver(SubSeq(rs, 1, Len(rs) - 1), field) + rs[Len(rs)][field]

CountStatus(rs, status) ==
    Cardinality({ k \in DOMAIN rs : rs[k].deliveryStatus = status })

(* Math.round(x * 100) / 100 of an amount x held in tenths: a multiple of
   0.1 has at most two decimals *)
Round2Money(x) == RoundDiv(x * 10, 1) \div 10

(* Variant of EfficiencyScore that truncates instead of rounding *)
EfficiencyScoreTruncated(onTime, total) ==
    IF total > 0 THEN (onTime * 100 * 100) \div total ELSE 0

(* efficiencyScore in hundredths of a percent:
   Math.round((onTime / total) * 100 * 100) / 100 *)
EfficiencyScore(onTime, total) ==
    IF total > 0 THEN RoundDiv(onTime * 100 * 100, total) ELSE 0

CalculateKPIs(rs) ==
    [totalProfit |-> Round2Money(SumOver(rs, "profit")),
     efficiencyScore |-> EfficiencyScore(CountStatus(rs, "On Time"), Len(rs)),
     onTimeDeliveries |-> CountStatus(rs, "On Time"),
     lateDeliveries |-> CountStatus(rs, "Late"),
     fuelCost |-> Round2Money(SumOver(rs, "fuelCost")),
     penalties |-> SumOver(rs, "penalty"),
     bonuses |-> Round2Money(SumOver(rs, "bonus"))]

-----------------------------------------------------------------------------
(* SimulationService.runSimulation *)

Limit(s, n) == SubSeq(s, 1, Min({n, Len(s)}))

(* A database without routes and orders *)
EmptyStore == [routes |-> <<>>, orders |-> <<>>]

(* A second call that has not been made *)
OtherIdle ==
    [pc |-> "idle", input |-> <<>>, drivers |-> <<>>, routes |-> <<>>,
     orders |-> <<>>, startTime |-> 0, result |-> <<>>, error |-> <<>>]

Init ==
    /\ pc = "validate"
    /\ input \in Inputs
    /\ fetched = "no"
    /\ drivers = <<>>
    /\ routes = <<>>
    /\ orders = <<>>
    /\ startTime = 0
    /\ assignments = <<>>
    /\ sortedOrders = <<>>
    /\ idx = 0
    /\ orderResults = <<>>
    /\ result = <<>>
    /\ thrown = <<>>
    /\ error = <<>>
    /\ other = OtherIdle
    /\ store = EmptyStore
    /\ answered = {}

(* Variant of Catch that rethrows the value caught *)
CatchRethrow(e) ==
    /\ thrown' = <<e>>
    /\ error' = <<e>>
    /\ pc' = "rejected"

(* the catch block, lines 99-101: e is the value caught *)
Catch(e) ==
    /\ thrown' = <<e>>
    /\ error' = <<MkError("Simulation failed: " \o
                          (IF e.isError THEN e.message ELSE "Unknown error"))>>
    /\ pc' = "rejected"

(* Variant of Validate in which the queries are issued whatever the
   validation says *)
ValidateThenFetchAnyway ==
    /\ pc = "validate"
    /\ pc' = "fetch"
    /\ UNCHANGED <<thrown, error>>
    /\ UNCHANGED <<store, answered, other, input, fetched, drivers, routes, orders, startTime, assignments,
                   sortedOrders, idx, orderResults, result>>

(* line 51 *)
Validate ==
    /\ pc = "validate"
    /\ LET v == ValidateSimulationInput(input)
       IN  IF v # <<>>
           THEN Catch(MkError(v[1]))
           ELSE pc' = "fetch" /\ UNCHANGED <<thrown, error>>
    /\ UNCHANGED <<store, answered, other, input, fetched, drivers, routes, orders, startTime, assignments,
                   sortedOrders, idx, orderResults, result>>

(* lines 54-58, the three queries succeed *)
Fetch ==
    /\ pc = "fetch"
    /\ \E ds \in SeqsUpTo(DriverPool, MaxDrivers),
          rs \in RouteCollections,
          os \in SeqsUpTo(OrderPool, MaxOrders) :
          /\ drivers' = Limit(WithDriverIds(ds), input.availableDrivers)
          /\ routes' = rs
          /\ orders' = WithOrderIds(os)
    /\ pc' = "fetched"
    /\ fetched' = "ok"
    /\ UNCHANGED <<store, answered, other, input, startTime, assignments, sortedOrders, idx,
                   orderResults, result, thrown, error>>

(* lines 54-58, a query fails *)
FetchFails ==
    /\ pc = "fetch"
    /\ \E e \in FetchErrors : Catch(e)
    /\ fetched' = "failed"
    /\ UNCHANGED <<store, answered, other, input, drivers, routes, orders, startTime, assignments,
                   sortedOrders, idx, orderResults, result>>

(* Variant of CheckFetched without the check for pending orders *)
CheckFetchedDriversOnly ==
    /\ pc = "fetched"
    /\ IF Len(drivers) = 0
       THEN Catch(MkError("No drivers available for simulation"))
            /\ UNCHANGED startTime
       ELSE /\ \E day \in Days : startTime' = StartDate(day, input.startTime)
            /\ pc' = "assign"
            /\ UNCHANGED <<thrown, error>>
    /\ UNCHANGED <<store, answered, other, input, fetched, drivers, routes, orders, assignments,
                   sortedOrders, idx, orderResults, result>>

(* lines 60-71 *)
CheckFetched ==
    /\ pc = "fetched"
    /\ IF Len(drivers) = 0
       THEN Catch(MkError("No drivers available for simulation"))
            /\ UNCHANGED startTime
       ELSE IF Len(orders) = 0
       THEN Catch(MkError("No pending orders for simulation"))
            /\ UNCHANGED startTime
       ELSE /\ \E day \in Days : startTime' = StartDate(day, input.startTime)
            /\ pc' = "assign"
            /\ UNCHANGED <<thrown, error>>
    /\ UNCHANGED <<store, answered, other, input, fetched, drivers, routes, orders, assignments, sortedOrders,
                   idx, orderResults, result>>

(* assignOrdersToDrivers, lines 132-147 *)
(* Variant of BeginAssign that sorts the fetched order list in place
   (orders.sort(...) without the copy) *)
BeginAssignInPlace ==
    /\ pc = "assign"
    /\ assignments' = InitialAssignments(drivers)
    /\ sortedOrders' = SortOrders(orders)
    /\ orders' = SortOrders(orders)
    /\ idx' = 1
    /\ pc' = "loop"
    /\ UNCHANGED <<store, answered, other, input, fetched, drivers, routes, startTime, orderResults,
                   result, thrown, error>>

BeginAssign ==
    /\ pc = "assign"
    /\ assignments' = InitialAssignments(drivers)
    /\ sortedOrders' = SortOrders(orders)
    /\ idx' = 1
    /\ pc' = "loop"
    /\ UNCHANGED <<store, answered, other, input, fetched, drivers, routes, orders, startTime, orderResults,
                   result, thrown, error>>

(* assignOrdersToDrivers, one iteration of the loop at lines 150-182 *)
AssignOrder ==
    /\ pc = "loop"
    /\ idx <= Len(sortedOrders)
    /\ LET order == sortedOrders[idx]
       IN  IF ~RouteMapHas(routes, order.assignedRoute)
           THEN UNCHANGED assignments
           ELSE LET route == RouteMapGet(routes, order.assignedRoute)
                    bestDriver == BestDriver(assignments, route,
                                             input.maxHoursPerDay)
                IN  IF bestDriver # 0
                    THEN assignments' = AssignTo(assignments, bestDriver,
                                                 order, route)
                    ELSE UNCHANGED assignments
    /\ idx' = idx + 1
    /\ UNCHANGED <<store, answered, other, pc, input, fetched, drivers, routes, orders, startTime,
                   sortedOrders, orderResults, result, thrown, error>>

(* Variant of CalculateOrderResults that maps over the deadline-sorted
   list instead of the fetched one *)
CalculateOrderResultsSorted ==
    /\ pc = "loop"
    /\ idx > Len(sortedOrders)
    /\ LET unrouted == UnroutedOrders(orders, routes)
       IN  IF unrouted # {}
           THEN /\ Catch(MkError("Route " \o orders[Min(unrouted)].assignedRoute
                                 \o " not found"))
                /\ UNCHANGED orderResults
           ELSE /\ orderResults' =
                       [k \in DOMAIN sortedOrders |->
                           OrderResultOf(sortedOrders[k], routes, assignments,
                                         startTime)]
                /\ pc' = "kpis"
                /\ UNCHANGED <<thrown, error>>
    /\ UNCHANGED <<store, answered, other, input, fetched, drivers, routes, orders, startTime, assignments,
                   sortedOrders, idx, result>>

(* Variant of CalculateOrderResults that skips an order whose route is
   unknown, as the assignment loop does, instead of throwing *)
CalculateOrderResultsSkipping ==
    /\ pc = "loop"
    /\ idx > Len(sortedOrders)
    /\ LET routed == SelectSeq(orders,
                          LAMBDA o : RouteMapHas(routes, o.assignedRoute))
       IN  orderResults' =
               [k \in DOMAIN routed |->
                   OrderResultOf(routed[k], routes, assignments, startTime)]
    /\ pc' = "kpis"
    /\ UNCHANGED <<store, answered, other, input, fetched, drivers, routes, orders, startTime,
                   assignments, sortedOrders, idx, result, thrown, error>>

(* calculateOrderResults, lines 234-283, called at line 83 *)
CalculateOrderResults ==
    /\ pc = "loop"
    /\ idx > Len(sortedOrders)
    /\ LET unrouted == UnroutedOrders(orders, routes)
       IN  IF unrouted # {}
           THEN /\ Catch(MkError("Route " \o orders[Min(unrouted)].assignedRoute
                                 \o " not found"))
                /\ UNCHANGED orderResults
           ELSE /\ orderResults' =
                       [k \in DOMAIN orders |->
                           OrderResultOf(orders[k], routes, assignments, startTime)]
                /\ pc' = "kpis"
                /\ UNCHANGED <<thrown, error>>
    /\ UNCHANGED <<store, answered, other, input, fetched, drivers, routes, orders, startTime, assignments,
                   sortedOrders, idx, result>>

(* lines 91-97 *)
Return ==
    /\ pc = "kpis"
    /\ result' = <<[kpis |-> CalculateKPIs(orderResults),
                    driverAssignments |-> assignments,
                    orderResults |-> orderResults]>>
    /\ pc' = "returned"
    /\ UNCHANGED <<store, answered, other, input, fetched, drivers, routes, orders, startTime, assignments,
                   sortedOrders, idx, orderResults, thrown, error>>

Next ==
    \/ Validate
    \/ Fetch
    \/ FetchFails
    \/ CheckFetched
    \/ BeginAssign
    \/ AssignOrder
    \/ CalculateOrderResults
    \/ Return

Spec == Init /\ [][Next]_vars

-----------------------------------------------------------------------------
(* The run as a function of its input, the fetched collections and the
   start Date: assignOrdersToDrivers, calculateOrderResults and
   calculateKPIs taken whole *)

(* one iteration of the loop at lines 150-182, on the list as *)
AssignStep(as, order, rs, maxHoursPerDay) ==
    IF ~RouteMapHas(rs, order.assignedRoute) THEN as
    ELSE LET route == RouteMapGet(rs, order.assignedRoute)
             bestDriver == BestDriver(as, route, maxHoursPerDay)
         IN  IF bestDriver # 0 THEN AssignTo(as, bestDriver, order, route)
             ELSE as

RECURSIVE AssignSorted(_, _, _, _)
AssignSorted(as, sorted, rs, maxHoursPerDay) ==
    IF sorted = <<>> THEN as
    ELSE AssignSorted(AssignStep(as, Head(sorted), rs, maxHoursPerDay),
                      Tail(sorted), rs, maxHoursPerDay)

AssignOrdersToDrivers(ds, os, rs, maxHoursPerDay) ==
    AssignSorted(InitialAssignments(ds), SortOrders(os), rs, maxHoursPerDay)

(* lines 73-97, for fetched collections that pass the checks of lines
   60-66 and in which every order's route is known *)
SimulationResultOf(in, ds, rs, os, start) ==
    LET driverAssignments == AssignOrdersToDrivers(ds, os, rs, in.maxHoursPerDay)
        results == [k \in DOMAIN os |->
                       OrderResultOf(os[k], rs, driverAssignments, start)]
    IN  [kpis |-> CalculateKPIs(results),
         driverAssignments |-> driverAssignments,
         orderResults |-> results]

-----------------------------------------------------------------------------
(* Runs of the scenarios of the test suite: the input of the tests (and a
   tighter maxHoursPerDay), one driver, a wider route collection and up to
   MaxScenarioOrders orders of value 1500, taken from the moment the queries
   have resolved *)

MaxScenarioOrders == 3

ScenarioInput ==
    [availableDrivers |-> 1,
     startTime |-> <<"0", "8", ":", "0", "0">>,
     maxHoursPerDay |-> 10]

ScenarioRoutes ==
    << [routeId |-> "R001", distance |-> 25, trafficLevel |-> "Medium", baseTime |-> 45],
       [routeId |-> "R002", distance |-> 50, trafficLevel |-> "High", baseTime |-> 60],
       [routeId |-> "R003", distance |-> 20, trafficLevel |-> "Low", baseTime |-> 30],
       [routeId |-> "R004", distance |-> 10, trafficLevel |-> "High", baseTime |-> 39],
       [routeId |-> "R005", distance |-> 10, trafficLevel |-> "Medium", baseTime |-> 52] >>

(* 08:58 and 12:00 of day 0 *)
ScenarioDeadlines == { 8 * 60 + 58, 12 * 60 }

(* maxHoursPerDay of the tests, and a limit two orders can exceed *)
ScenarioMaxHours == { 2, 10 }

ScenarioOrderPool ==
    [value : { Rupees(1500) },
     assignedRoute : { ScenarioRoutes[k].routeId : k \in DOMAIN ScenarioRoutes },
     deliveryTimestamp : ScenarioDeadlines]

ScenarioInit ==
    /\ pc = "fetched"
    /\ input \in { [ScenarioInput EXCEPT !.maxHoursPerDay = h] :
                      h \in ScenarioMaxHours }
    /\ fetched = "ok"
    /\ drivers \in { WithDriverIds(ds) : ds \in [1..1 -> DriverPool] }
    /\ routes = ScenarioRoutes
    /\ orders \in { WithOrderIds(os) :
                      os \in SeqsUpTo(ScenarioOrderPool, MaxScenarioOrders) }
    /\ startTime = 0
    /\ assignments = <<>>
    /\ sortedOrders = <<>>
    /\ idx = 0
    /\ orderResults = <<>>
    /\ result = <<>>
    /\ thrown = <<>>
    /\ error = <<>>
    /\ other = OtherIdle
    /\ store = EmptyStore
    /\ answered = {}

ScenarioNext ==
    \/ CheckFetched
    \/ BeginAssign
    \/ AssignOrder
    \/ CalculateOrderResults
    \/ Return

ScenarioSpec == ScenarioInit /\ [][ScenarioNext]_vars

-----------------------------------------------------------------------------
(* Two overlapping calls of runSimulation. The first is the run of the
   variables above; the second is made while the first awaits its queries
   and keeps its locals in other. A call runs without interruption up to
   its await (lines 49-58) and from the resolution of its queries to its
   return (lines 60-101), so the second call takes its two steps only
   while the first is suspended or finished. *)

ConcInput ==
    [availableDrivers |-> 2,
     startTime |-> <<"0", "8", ":", "0", "0">>,
     maxHoursPerDay |-> 3]

(* The inputs of the second call: the same one, and a tighter one *)
OtherInputs ==
    { ConcInput,
      [availableDrivers |-> 1,
       startTime |-> <<"8", ":", "0", "0">>,
       maxHoursPerDay |-> 1] }

ConcDrivers ==
    WithDriverIds(<< [name |-> "Asha", currentShiftHours |-> 9],
                     [name |-> "Ravi", currentShiftHours |-> 6] >>)

ConcOrderPool ==
    [value : { Rupees(1005) },
     assignedRoute : RouteIds,
     deliveryTimestamp : Deadlines]

(* What Order.find can yield at the moment a call's queries run: the store
   may change between the queries of the two calls *)
ConcOrderSnapshots ==
    { WithOrderIds(os) : os \in SeqsUpTo(ConcOrderPool, MaxOrders) }

ConcInit ==
    /\ pc = "validate"
    /\ input = ConcInput
    /\ fetched = "no"
    /\ drivers = <<>>
    /\ routes = <<>>
    /\ orders = <<>>
    /\ startTime = 0
    /\ assignments = <<>>
    /\ sortedOrders = <<>>
    /\ idx = 0
    /\ orderResults = <<>>
    /\ result = <<>>
    /\ thrown = <<>>
    /\ error = <<>>
    /\ other = OtherIdle
    /\ store = EmptyStore
    /\ answered = {}

(* lines 54-58 of the first call, the three queries succeed *)
ConcFetch ==
    /\ pc = "fetch"
    /\ drivers' = Limit(ConcDrivers, input.availableDrivers)
    /\ routes' = RouteCatalogue
    /\ orders' \in ConcOrderSnapshots
    /\ pc' = "fetched"
    /\ fetched' = "ok"
    /\ UNCHANGED <<store, answered, other, input, startTime, assignments, sortedOrders, idx,
                   orderResults, result, thrown, error>>

(* Variant of OtherStart in which the service keeps the input of the
   latest call in a slot all calls share *)
OtherStartSharedInput ==
    /\ pc = "fetch"
    /\ other.pc = "idle"
    /\ \E in \in OtherInputs :
          /\ ValidateSimulationInput(in) = <<>>
          /\ other' = [other EXCEPT !.pc = "fetch", !.input = <<in>>]
          /\ input' = in
    /\ UNCHANGED <<store, answered, pc, fetched, drivers, routes, orders, startTime,
                   assignments, sortedOrders, idx, orderResults, result,
                   thrown, error>>

(* lines 49-58 of the second call: validation passes and the queries are
   issued, while the first call awaits its own *)
OtherStart ==
    /\ pc = "fetch"
    /\ other.pc = "idle"
    /\ \E in \in OtherInputs :
          /\ ValidateSimulationInput(in) = <<>>
          /\ other' = [other EXCEPT !.pc = "fetch", !.input = <<in>>]
    /\ UNCHANGED <<store, answered, pc, input, fetched, drivers, routes, orders, startTime,
                   assignments, sortedOrders, idx, orderResults, result,
                   thrown, error>>

(* lines 54-101 of the second call: its queries resolve with its own
   snapshot and it runs to its return or its rejection *)
OtherResume ==
    /\ pc \in {"fetch", "returned", "rejected"}
    /\ other.pc = "fetch"
    /\ \E os \in ConcOrderSnapshots, day \in Days :
          LET in == other.input[1]
              ds == Limit(ConcDrivers, in.availableDrivers)
              start == StartDate(day, in.startTime)
              fetchedOther == [other EXCEPT !.drivers = ds,
                                            !.routes = RouteCatalogue,
                                            !.orders = os]
          IN  IF Len(os) = 0
              THEN other' = [fetchedOther EXCEPT
                                !.pc = "rejected",
                                !.error = <<MkError("Simulation failed: " \o
                                             "No pending orders for simulation")>>]
              ELSE other' = [fetchedOther EXCEPT
                                !.pc = "returned",
                                !.startTime = start,
                                !.result = <<SimulationResultOf(
                                               in, ds, RouteCatalogue, os, start)>>]
    /\ UNCHANGED <<store, answered, pc, input, fetched, drivers, routes, orders, startTime,
                   assignments, sortedOrders, idx, orderResults, result,
                   thrown, error>>

ConcNext ==
    \/ Validate
    \/ ConcFetch
    \/ FetchFails
    \/ CheckFetched
    \/ BeginAssign
    \/ AssignOrder
    \/ CalculateOrderResults
    \/ Return
    \/ OtherStart
    \/ OtherResume

ConcSpec == ConcInit /\ [][ConcNext]_vars

-----------------------------------------------------------------------------
(* Runs over long routes, on which a driver's score reaches its floor: two
   drivers, up to MaxSelectionOrders orders, taken from the moment the
   queries have resolved *)

MaxSelectionOrders == 3

(* distance is at most 1000 km in the Route schema *)
SelectionRoutes ==
    << [routeId |-> "R001", distance |-> 25, trafficLevel |-> "Medium", baseTime |-> 45],
       [routeId |-> "R010", distance |-> 1000, trafficLevel |-> "Low", baseTime |-> 30],
       [routeId |-> "R011", distance |-> 700, trafficLevel |-> "High", baseTime |-> 60] >>

SelectionOrderPool ==
    [value : { Rupees(1005) },
     assignedRoute : { SelectionRoutes[k].routeId : k \in DOMAIN SelectionRoutes },
     deliveryTimestamp : Deadlines]

SelectionInit ==
    /\ pc = "fetched"
    /\ input \in { [ScenarioInput EXCEPT !.availableDrivers = 2,
                                         !.maxHoursPerDay = h] :
                      h \in ScenarioMaxHours }
    /\ fetched = "ok"
    /\ drivers \in { WithDriverIds(ds) : ds \in [1..2 -> DriverPool] }
    /\ routes = SelectionRoutes
    /\ orders \in { WithOrderIds(os) :
                      os \in SeqsUpTo(SelectionOrderPool, MaxSelectionOrders) }
    /\ startTime = 0
    /\ assignments = <<>>
    /\ sortedOrders = <<>>
    /\ idx = 0
    /\ orderResults = <<>>
    /\ result = <<>>
    /\ thrown = <<>>
    /\ error = <<>>
    /\ other = OtherIdle
    /\ store = EmptyStore
    /\ answered = {}

SelectionNext ==
    \/ CheckFetched
    \/ BeginAssign
    \/ AssignOrder
    \/ CalculateOrderResults
    \/ Return

SelectionSpec == SelectionInit /\ [][SelectionNext]_vars

-----------------------------------------------------------------------------
(* The route and order requests of routes/routes.ts and routes/orders.ts on
   the database, one request at a time. A request that is answered with an
   error changes nothing and is not a step. *)

MaxStoreRoutes == 2
MaxStoreOrders == 2

(* The variables of the runs, which no request touches *)
RunVars ==
    <<pc, input, fetched, drivers, routes, orders, startTime, assignments,
      sortedOrders, idx, orderResults, result, thrown, error, other>>

(* String.prototype.toUpperCase on the ids the requests carry *)
UpperCase(s) ==
    CASE s = "r001" -> "R001"
      [] s = "r002" -> "R002"
      [] s = "o1" -> "O1"
      [] s = "o2" -> "O2"
      [] OTHER -> s

RequestRouteIds == { "R001", "r001", "R002" }

RequestOrderIds == { "O1", "o1", "O2" }

(* <<>> for a field the request body leaves undefined *)
Optional(S) == { <<>> } \cup { <<v>> : v \in S }

OrElse(opt, old) == IF opt = <<>> THEN old ELSE opt[1]

(* The _id of a new document *)
FreshId(docs, max) ==
    CHOOSE i \in 1..max : \A k \in DOMAIN docs : docs[k].id # i

Without(docs, k) == SubSeq(docs, 1, k - 1) \o SubSeq(docs, k + 1, Len(docs))

HasRoute(rs, routeId) == \E j \in DOMAIN rs : rs[j].routeId = routeId

(* router.post('/') of routes.ts *)
CreateRoute ==
    /\ Len(store.routes) < MaxStoreRoutes
    /\ \E routeId \in RequestRouteIds, b \in DOMAIN RouteCatalogue :
          /\ ~HasRoute(store.routes, UpperCase(routeId))
          /\ store' = [store EXCEPT !.routes =
                 Append(@, [id |-> FreshId(store.routes, MaxStoreRoutes),
                            routeId |-> UpperCase(routeId),
                            distance |-> RouteCatalogue[b].distance,
                            trafficLevel |-> RouteCatalogue[b].trafficLevel,
                            baseTime |-> RouteCatalogue[b].baseTime])]
    /\ UNCHANGED <<RunVars, answered>>

(* router.put('/:id') of routes.ts; the requests carry distance,
   trafficLevel and baseTime of one catalogue route, or none of the three *)
UpdateRoute ==
    /\ \E k \in DOMAIN store.routes,
          routeId \in Optional(RequestRouteIds),
          body \in Optional(DOMAIN RouteCatalogue) :
          /\ routeId # <<>> =>
                ~\E j \in DOMAIN store.routes :
                    j # k /\ store.routes[j].routeId = UpperCase(routeId[1])
          /\ store' = [store EXCEPT !.routes[k] =
                 [id |-> @.id,
                  routeId |-> IF routeId = <<>> THEN @.routeId
                              ELSE UpperCase(routeId[1]),
                  distance |-> IF body = <<>> THEN @.distance
                               ELSE RouteCatalogue[body[1]].distance,
                  trafficLevel |-> IF body = <<>> THEN @.trafficLevel
                                   ELSE RouteCatalogue[body[1]].trafficLevel,
                  baseTime |-> IF body = <<>> THEN @.baseTime
                               ELSE RouteCatalogue[body[1]].baseTime]]
    /\ UNCHANGED <<RunVars, answered>>

(* router.delete('/:id') of routes.ts *)
DeleteRoute ==
    /\ \E k \in DOMAIN store.routes :
          /\ ~\E o \in DOMAIN store.orders :
                 store.orders[o].assignedRoute = store.routes[k].routeId
          /\ store' = [store EXCEPT !.routes = Without(@, k)]
    /\ UNCHANGED <<RunVars, answered>>

(* router.post('/') of orders.ts *)
CreateOrder ==
    /\ Len(store.orders) < MaxStoreOrders
    /\ \E orderId \in RequestOrderIds, assignedRoute \in RequestRouteIds,
          value \in { Rupees(1005) }, deliveryTimestamp \in { 8 * 60 + 54 } :
          /\ HasRoute(store.routes, UpperCase(assignedRoute))
          /\ ~\E o \in DOMAIN store.orders :
                 store.orders[o].orderId = UpperCase(orderId)
          /\ store' = [store EXCEPT !.orders =
                 Append(@, [id |-> FreshId(store.orders, MaxStoreOrders),
                            orderId |-> UpperCase(orderId),
                            value |-> value,
                            assignedRoute |-> UpperCase(assignedRoute),
                            deliveryTimestamp |-> deliveryTimestamp,
                            isDelivered |-> FALSE])]
    /\ UNCHANGED <<RunVars, answered>>

(* router.put('/:id') of orders.ts; assignedDriver and actualDeliveryTime
   are fields no run reads *)
UpdateOrder ==
    /\ \E k \in DOMAIN store.orders,
          orderId \in Optional(RequestOrderIds),
          value \in Optional({ Rupees(1005) }),
          assignedRoute \in Optional(RequestRouteIds),
          deliveryTimestamp \in Optional({ 8 * 60 + 54 }),
          isDelivered \in Optional(BOOLEAN) :
          /\ orderId # <<>> =>
                ~\E j \in DOMAIN store.orders :
                    j # k /\ store.orders[j].orderId = UpperCase(orderId[1])
          /\ assignedRoute # <<>> =>
                HasRoute(store.routes, UpperCase(assignedRoute[1]))
          /\ store' = [store EXCEPT !.orders[k] =
                 [id |-> @.id,
                  orderId |-> IF orderId = <<>> THEN @.orderId
                              ELSE UpperCase(orderId[1]),
                  value |-> OrElse(value, @.value),
                  assignedRoute |-> IF assignedRoute = <<>> THEN @.assignedRoute
                                    ELSE UpperCase(assignedRoute[1]),
                  deliveryTimestamp |-> OrElse(deliveryTimestamp, @.deliveryTimestamp),
                  isDelivered |-> OrElse(isDelivered, @.isDelivered)]]
    /\ UNCHANGED <<RunVars, answered>>

(* router.delete('/:id') of orders.ts *)
DeleteOrder ==
    /\ \E k \in DOMAIN store.orders :
          store' = [store EXCEPT !.orders = Without(@, k)]
    /\ UNCHANGED <<RunVars, answered>>

(* router.patch('/:id/deliver') of orders.ts *)
DeliverOrder ==
    /\ \E k \in DOMAIN store.orders :
          /\ ~store.orders[k].isDelivered
          /\ store' = [store EXCEPT !.orders[k].isDelivered = TRUE]
    /\ UNCHANGED <<RunVars, answered>>

StoreInit ==
    /\ pc = "validate"
    /\ input = ConcInput
    /\ fetched = "no"
    /\ drivers = <<>>
    /\ routes = <<>>
    /\ orders = <<>>
    /\ startTime = 0
    /\ assignments = <<>>
    /\ sortedOrders = <<>>
    /\ idx = 0
    /\ orderResults = <<>>
    /\ result = <<>>
    /\ thrown = <<>>
    /\ error = <<>>
    /\ other = OtherIdle
    /\ store = EmptyStore
    /\ answered = {}

StoreNext ==
    \/ CreateRoute
    \/ UpdateRoute
    \/ DeleteRoute
    \/ CreateOrder
    \/ UpdateOrder
    \/ DeleteOrder
    \/ DeliverOrder

StoreSpec == StoreInit /\ [][StoreNext]_vars

-----------------------------------------------------------------------------
(* A run whose three queries (lines 54-58) are answered one by one by the
   database, in any order, while routes and orders are being created *)

QueryNames == { "drivers", "routes", "orders" }

(* Driver.find().limit(input.availableDrivers); the drivers do not change *)
QueryDrivers ==
    /\ pc = "fetch"
    /\ "drivers" \notin answered
    /\ drivers' = Limit(ConcDrivers, input.availableDrivers)
    /\ answered' = answered \cup { "drivers" }
    /\ UNCHANGED <<store, other, pc, input, fetched, routes, orders, startTime,
                   assignments, sortedOrders, idx, orderResults, result,
                   thrown, error>>

(* Route.find() *)
QueryRoutes ==
    /\ pc = "fetch"
    /\ "routes" \notin answered
    /\ routes' = [k \in DOMAIN store.routes |->
                     [routeId |-> store.routes[k].routeId,
                      distance |-> store.routes[k].distance,
                      trafficLevel |-> store.routes[k].trafficLevel,
                      baseTime |-> store.routes[k].baseTime]]
    /\ answered' = answered \cup { "routes" }
    /\ UNCHANGED <<store, other, pc, input, fetched, drivers, orders, startTime,
                   assignments, sortedOrders, idx, orderResults, result,
                   thrown, error>>

(* Order.find({ isDelivered: false }) *)
QueryOrders ==
    /\ pc = "fetch"
    /\ "orders" \notin answered
    /\ LET pending == SelectSeq(store.orders, LAMBDA o : ~o.isDelivered)
       IN  orders' = WithOrderIds(
                         [k \in DOMAIN pending |->
                             [value |-> pending[k].value,
                              assignedRoute |-> pending[k].assignedRoute,
                              deliveryTimestamp |-> pending[k].deliveryTimestamp]])
    /\ answered' = answered \cup { "orders" }
    /\ UNCHANGED <<store, other, pc, input, fetched, drivers, routes, startTime,
                   assignments, sortedOrders, idx, orderResults, result,
                   thrown, error>>

(* Promise.all resolves once the three queries have been answered *)
FetchResolved ==
    /\ pc = "fetch"
    /\ answered = QueryNames
    /\ pc' = "fetched"
    /\ fetched' = "ok"
    /\ UNCHANGED <<store, answered, other, input, drivers, routes, orders,
                   startTime, assignments, sortedOrders, idx, orderResults,
                   result, thrown, error>>

SnapshotNext ==
    \/ CreateRoute
    \/ CreateOrder
    \/ Validate
    \/ QueryDrivers
    \/ QueryRoutes
    \/ QueryOrders
    \/ FetchResolved
    \/ CheckFetched
    \/ BeginAssign
    \/ AssignOrder
    \/ CalculateOrderResults
    \/ Return

SnapshotSpec == StoreInit /\ [][SnapshotNext]_vars

-----------------------------------------------------------------------------
(* Properties *)

Terminated == pc \in {"returned", "rejected"}

(* The route of a fetched order, by order id *)
RouteOfOrder(orderId) == RouteMapGet(routes, orders[orderId].assignedRoute)

RECURSIVE SumAdjustedTime(_)
SumAdjustedTime(ids) ==
    IF ids = <<>> THEN 0
    ELSE SumAdjustedTime(SubSeq(ids, 1, Len(ids) - 1))
         + AdjustedTime(RouteOfOrder(ids[Len(ids)]))

WithinCapacity(as) ==
    \A k \in DOMAIN as :
        /\ SumAdjustedTime(as[k].assignedOrders) <= input.maxHoursPerDay * 60
        /\ as[k].totalHours = SumAdjustedTime(as[k].assignedOrders)

(* C1: after every acceptance of an order and in the returned result, for
   every DriverAssignment the sum of adjustedTime(route)/60 over its
   assigned orders, which is its totalHours, is at most maxHoursPerDay. *)
CapacityInvariant ==
    /\ WithinCapacity(assignments)
    /\ result # <<>> => WithinCapacity(result[1].driverAssignments)

(* C1 witness: a returned run in which a driver carries two orders that
   fill maxHoursPerDay exactly *)
CapacityWitness ==
    /\ result # <<>>
    /\ \E k \in DOMAIN result[1].driverAssignments :
          /\ Len(result[1].driverAssignments[k].assignedOrders) = 2
          /\ result[1].driverAssignments[k].totalHours = input.maxHoursPerDay * 60

OrderAtMostOnce(as) ==
    \A k, j \in DOMAIN as :
        \A p \in DOMAIN as[k].assignedOrders, q \in DOMAIN as[j].assignedOrders :
            as[k].assignedOrders[p] = as[j].assignedOrders[q] => k = j /\ p = q

(* C2: in the DriverAssignment list of a run, every order id appears in at
   most one driver's assignedOrders list, and at most once in that list. *)
OrderAssignedAtMostOnce ==
    /\ OrderAtMostOnce(assignments)
    /\ result # <<>> => OrderAtMostOnce(result[1].driverAssignments)

(* C2 witness: a returned run in which two drivers each carry an order *)
OrderAssignedAtMostOnceWitness ==
    /\ result # <<>>
    /\ \E k, j \in DOMAIN result[1].driverAssignments :
          /\ k # j
          /\ result[1].driverAssignments[k].assignedOrders # <<>>
          /\ result[1].driverAssignments[j].assignedOrders # <<>>

CompleteResult(r) ==
    /\ Len(r.driverAssignments) = Len(drivers)
    /\ Len(r.orderResults) = Len(orders)
    /\ \A k \in DOMAIN orders : r.orderResults[k].orderId = orders[k].orderId
    /\ r.kpis.onTimeDeliveries + r.kpis.lateDeliveries = Len(orders)

(* C3: a run either returns a complete SimulationResult or fails with no
   result; if any fetched order references a route id absent from the
   fetched routes, the run fails and no result, partial or whole, exists. *)
AllOrNothing ==
    /\ (pc = "returned") <=> (result # <<>>)
    /\ (pc = "rejected") <=> (error # <<>>)
    /\ result # <<>> => CompleteResult(result[1])
    /\ error # <<>> => result = <<>> /\ orderResults = <<>>
    /\ fetched = "ok" /\ UnroutedOrders(orders, routes) # {} =>
          /\ result = <<>>
          /\ orderResults = <<>>
          /\ pc # "kpis"

(* C3 witness: a run rejected for the unknown route of one order while
   another order of the same fetch has a known route *)
AllOrNothingWitness ==
    /\ pc = "rejected"
    /\ UnroutedOrders(orders, routes) # {}
    /\ thrown[1].message = "Route R002 not found"
    /\ \E k \in DOMAIN orders : RouteMapHas(routes, orders[k].assignedRoute)

-----------------------------------------------------------------------------
(* Validation and errors *)

TwoDigits(n) == << Digits[(n \div 10) + 1], Digits[(n % 10) + 1] >>

(* "HH:MM" of a 24-hour clock: two digits each *)
IsHHMM(s) ==
    /\ Len(s) = 5
    /\ \E h \in 0..23 : SubSeq(s, 1, 2) = TwoDigits(h)
    /\ s[3] = ":"
    /\ \E m \in 0..59 : SubSeq(s, 4, 5) = TwoDigits(m)

(* "H:MM": an hour below ten written with one digit *)
IsHMM(s) ==
    /\ Len(s) = 4
    /\ \E h \in 0..9 : s[1] = Digits[h + 1]
    /\ s[2] = ":"
    /\ \E m \in 0..59 : SubSeq(s, 3, 4) = TwoDigits(m)

(* The messages of the conditions the input violates, timeOk telling
   whether its startTime is well formed *)
ViolatedMessages(in, timeOk) ==
    (IF in.availableDrivers <= 0
     THEN {"Available drivers must be greater than 0"} ELSE {})
    \cup (IF in.maxHoursPerDay \notin 1..24
          THEN {"Max hours per day must be between 1 and 24"} ELSE {})
    \cup (IF ~timeOk THEN {"Start time must be in HH:MM format"} ELSE {})

RejectedByValidation(timeOk) ==
    /\ pc = "rejected"
    /\ result = <<>>
    /\ fetched = "no"
    /\ thrown[1].message \in ViolatedMessages(input, timeOk)
    /\ error[1].message = "Simulation failed: " \o thrown[1].message

(* C4 as stated: every input with availableDrivers <= 0, maxHoursPerDay
   outside [1,24] or a startTime that is not a 24-hour HH:MM string is
   rejected with the validation error of a violated condition. *)
ValidationRejectsNonHHMM ==
    pc # "validate" /\ ViolatedMessages(input, IsHHMM(input.startTime)) # {}
        => RejectedByValidation(IsHHMM(input.startTime))

(* C4 amended: the same with the startTime condition read as "neither
   HH:MM nor H:MM": a one-digit hour such as 8:00 passes validation. *)
ValidationRejects ==
    LET timeOk == IsHHMM(input.startTime) \/ IsHMM(input.startTime)
    IN  pc # "validate" /\ ViolatedMessages(input, timeOk) # {}
            => RejectedByValidation(timeOk)

(* C4 witness: a run rejected for its startTime 25:00 alone *)
ValidationRejectsWitness ==
    /\ pc = "rejected"
    /\ input.availableDrivers > 0
    /\ input.maxHoursPerDay \in 1..24
    /\ input.startTime = <<"2", "5", ":", "0", "0">>
    /\ thrown[1].message = "Start time must be in HH:MM format"

(* C5 as stated: the error the caller receives is the error that was
   thrown, unchanged. *)
ErrorUnchanged == error # <<>> => error[1] = thrown[1]

(* C5 amended: the caller receives a new Error whose message is
   "Simulation failed: " followed by the message of the error thrown, or
   by "Unknown error" when the value thrown is not an Error. *)
ErrorWrapped ==
    error # <<>> =>
        /\ thrown # <<>>
        /\ error[1].isError
        /\ thrown[1].isError =>
              error[1].message = "Simulation failed: " \o thrown[1].message
        /\ ~thrown[1].isError =>
              error[1].message = "Simulation failed: Unknown error"
        /\ fetched = "no" /\ input.availableDrivers <= 0 =>
              error[1].message =
                  "Simulation failed: Available drivers must be greater than 0"

(* C5 witness: a run rejected because the data-access collaborator failed *)
ErrorWrappedWitness ==
    /\ pc = "rejected"
    /\ fetched = "failed"
    /\ thrown[1].message = "connect ECONNREFUSED"
    /\ error[1].message = "Simulation failed: connect ECONNREFUSED"

(* C6: if the fetch returns zero drivers or zero undelivered orders, the
   run fails with the not-found error and no result; assignment, per-order
   results and KPIs are never computed. *)
EmptyFetchRejected ==
    fetched = "ok" /\ pc # "fetched" /\ (drivers = <<>> \/ orders = <<>>) =>
        /\ pc = "rejected"
        /\ result = <<>>
        /\ thrown[1].message =
              (IF drivers = <<>> THEN "No drivers available for simulation"
               ELSE "No pending orders for simulation")
        /\ error[1].message = "Simulation failed: " \o thrown[1].message
        /\ idx = 0
        /\ assignments = <<>>
        /\ sortedOrders = <<>>
        /\ orderResults = <<>>

(* C6 witness: a run rejected after fetching drivers but no pending order *)
EmptyFetchRejectedWitness ==
    /\ pc = "rejected"
    /\ fetched = "ok"
    /\ drivers # <<>>
    /\ orders = <<>>

-----------------------------------------------------------------------------
(* Per-order results *)

(* Whether the order at position k of the fetch is on no driver's list *)
OnNoList(k) ==
    \A d \in DOMAIN assignments :
        \A j \in DOMAIN assignments[d].assignedOrders :
            assignments[d].assignedOrders[j] # orders[k].orderId

(* The value of isOnTime for the order at position k: its delivery time
   against its deadline, with the fatigue flag of the driver holding it *)
OnTimeOfOrder(k) ==
    LET d == FindAssignedDriver(assignments, orders[k].orderId)
        fatigued == IF d = 0 THEN FALSE ELSE assignments[d].isFatigued
    IN  CalculateDeliveryTime(startTime, RouteOfOrder(k), fatigued)
            <= orders[k].deliveryTimestamp

(* C7: an order no driver can accept does not fail the run; it gets
   exactly one OrderResult, marked unassigned, whose status, penalty,
   bonus and profit are computed with isFatigued = false. *)
UnassignedOrderScored ==
    /\ pc = "rejected" /\ fetched = "ok" =>
          drivers = <<>> \/ orders = <<>> \/ UnroutedOrders(orders, routes) # {}
    /\ result # <<>> =>
          \A k \in DOMAIN orders : OnNoList(k) =>
              LET r == result[1].orderResults[k]
                  route == RouteOfOrder(k)
                  onTime == startTime + AdjustedTime(route)
                                <= orders[k].deliveryTimestamp
                  bonus == IF orders[k].value > Rupees(1000) /\ onTime
                           THEN orders[k].value \div 10 ELSE 0
                  penalty == IF onTime THEN 0 ELSE Rupees(50)
              IN  /\ Cardinality({ j \in DOMAIN result[1].orderResults :
                         result[1].orderResults[j].orderId = orders[k].orderId }) = 1
                  /\ r.orderId = orders[k].orderId
                  /\ r.assignedDriver = "Unassigned"
                  /\ r.deliveryStatus = (IF onTime THEN "On Time" ELSE "Late")
                  /\ r.penalty = penalty
                  /\ r.bonus = bonus
                  /\ r.profit = orders[k].value + bonus - penalty - FuelCost(route)

(* C7 witness: a returned run with an order on no list although a driver
   was fetched, On Time where a fatigued driver would have been late *)
UnassignedOrderScoredWitness ==
    /\ result # <<>>
    /\ \E k \in DOMAIN orders :
          /\ OnNoList(k)
          /\ result[1].orderResults[k].deliveryStatus = "On Time"
          /\ CalculateDeliveryTime(startTime, RouteOfOrder(k), TRUE)
                > orders[k].deliveryTimestamp

(* C8: for every OrderResult, profit = orderValue + bonus - penalty -
   fuelCost, where fuelCost is the fuel cost of the order's route. *)
ProfitIdentity ==
    \A k \in DOMAIN orderResults :
        LET r == orderResults[k]
        IN  /\ r.orderValue = orders[k].value
            /\ r.fuelCost = FuelCost(RouteOfOrder(k))
            /\ r.profit = r.orderValue + r.bonus - r.penalty - r.fuelCost
            /\ result # <<>> => result[1].orderResults[k] = r

(* C8 witness: a returned run with an order that earned a bonus and an
   order that was charged the penalty *)
ProfitIdentityWitness ==
    /\ result # <<>>
    /\ \E k, j \in DOMAIN result[1].orderResults :
          /\ result[1].orderResults[k].bonus > 0
          /\ result[1].orderResults[j].penalty > 0

(* C9: penalty = 50 iff the order is not on time, else 0; the order is on
   time exactly when its delivery time is at or before its deadline;
   deliveryStatus is Late iff penalty = 50. *)
PenaltyIffLate ==
    \A k \in DOMAIN orderResults :
        LET r == orderResults[k]
        IN  /\ r.penalty = Rupees(50) <=> ~OnTimeOfOrder(k)
            /\ r.penalty = 0 <=> OnTimeOfOrder(k)
            /\ r.deliveryStatus = "Late" <=> r.penalty = Rupees(50)
            /\ r.deliveryStatus = "On Time" <=> r.penalty = 0

(* C9 witness: a returned run with an order delivered exactly at its
   deadline, On Time and without penalty *)
PenaltyIffLateWitness ==
    /\ result # <<>>
    /\ \E k \in DOMAIN orders :
          /\ startTime + AdjustedTime(RouteOfOrder(k)) = orders[k].deliveryTimestamp
          /\ ~OnNoList(k)
          /\ result[1].orderResults[k].deliveryStatus = "On Time"
          /\ result[1].orderResults[k].penalty = 0

HighValueOnTime(k) == orders[k].value > Rupees(1000) /\ OnTimeOfOrder(k)

(* C10 as stated: bonus = round(value * 0.10) iff value > 1000 and the
   order is on time; otherwise bonus = 0. *)
BonusRounded ==
    \A k \in DOMAIN orderResults :
        orderResults[k].bonus =
            (IF HighValueOnTime(k)
             THEN Rupees(RoundDiv(orders[k].value, Rupees(10)))
             ELSE 0)

(* C10 amended: bonus = value * 0.10, not rounded, iff value > 1000 and
   the order is on time; otherwise bonus = 0. *)
BonusTenPercent ==
    \A k \in DOMAIN orderResults :
        /\ HighValueOnTime(k) => 10 * orderResults[k].bonus = orders[k].value
        /\ ~HighValueOnTime(k) => orderResults[k].bonus = 0

(* C10 witness: a returned run with an on-time order of value 1005 whose
   bonus is 100.5 and an on-time order of value 1000 without bonus *)
BonusTenPercentWitness ==
    /\ result # <<>>
    /\ \E k, j \in DOMAIN orders :
          /\ orders[k].value = Rupees(1005)
          /\ result[1].orderResults[k].deliveryStatus = "On Time"
          /\ result[1].orderResults[k].bonus = 1005
          /\ orders[j].value = Rupees(1000)
          /\ result[1].orderResults[j].deliveryStatus = "On Time"
          /\ result[1].orderResults[j].bonus = 0

-----------------------------------------------------------------------------
(* KPIs *)

OnTimeCount ==
    Cardinality({ k \in DOMAIN orderResults :
                    orderResults[k].deliveryStatus = "On Time" })

(* C11: on every successful run efficiencyScore is within [0,100], is 100
   when every order is On Time and 0 when every order is Late, and is
   100 * onTimeDeliveries / totalOrders rounded to two decimals (the score
   is held in hundredths: s is the rounding of x iff s <= x + 1/2 < s + 1). *)
EfficiencyScoreRounded ==
    result # <<>> =>
        LET s == result[1].kpis.efficiencyScore
            total == Len(orders)
            on == OnTimeCount
        IN  /\ result[1].kpis.onTimeDeliveries = on
            /\ s \in 0..(100 * 100)
            /\ on = total => s = 100 * 100
            /\ on = 0 => s = 0
            /\ 2 * total * s <= 2 * 100 * 100 * on + total
            /\ 2 * 100 * 100 * on + total < 2 * total * (s + 1)

(* C11 witness: a returned run with two of three orders On Time, whose
   score 66.666... is rounded to 66.67 *)
EfficiencyScoreRoundedWitness ==
    /\ result # <<>>
    /\ Len(orders) = 3
    /\ OnTimeCount = 2
    /\ result[1].kpis.efficiencyScore = 6667

-----------------------------------------------------------------------------
(* Dependence on the day of the run *)

(* C12: a returned result is the one the same input and the same fetched
   collections give on every day on which the run could have been executed
   (the result does not depend on the current date). *)
ResultIndependentOfRunDate ==
    result # <<>> =>
        \A day \in Days :
            result[1] = SimulationResultOf(input, drivers, routes, orders,
                                           StartDate(day, input.startTime))

(* Scenario A of the test suite: one driver with 6 shift hours, one order
   of value 1500 on R001, due at 12:00 of day 0 *)
ScenarioA ==
    /\ input = ScenarioInput
    /\ Len(drivers) = 1
    /\ drivers[1].currentShiftHours = 6
    /\ Len(orders) = 1
    /\ orders[1].assignedRoute = "R001"
    /\ orders[1].value = Rupees(1500)
    /\ orders[1].deliveryTimestamp = 12 * 60

(* C13: the run of Scenario A delivers at 08:54, On Time, with fuel cost
   125, bonus 150, penalty 0, profit 1525 and a positive total profit. *)
ScenarioAOutcome ==
    (ScenarioA /\ result # <<>>) =>
        LET r == result[1].orderResults[1]
        IN  /\ CalculateDeliveryTime(startTime, RouteOfOrder(1), FALSE) % (24 * 60)
                   = 8 * 60 + 54
            /\ r.deliveryStatus = "On Time"
            /\ r.fuelCost = Rupees(125)
            /\ r.bonus = Rupees(150)
            /\ r.penalty = 0
            /\ r.profit = Rupees(1525)
            /\ result[1].kpis.totalProfit > 0

-----------------------------------------------------------------------------
(* Fatigue *)

(* C14: at every moment of a run, and in the returned driverAssignments,
   a driver's isFatigued is currentShiftHours > 8 of the fetched driver
   (8 hours exactly is not fatigued), whatever has been assigned since. *)
FatigueFixedAtStart ==
    /\ \A k \in DOMAIN assignments :
          /\ assignments[k].driverId = drivers[k].id
          /\ assignments[k].isFatigued <=> drivers[k].currentShiftHours > 8
    /\ result # <<>> =>
          \A k \in DOMAIN drivers :
              result[1].driverAssignments[k].isFatigued
                  <=> drivers[k].currentShiftHours > 8

(* C14 witness: a returned run in which a driver with exactly 8 shift hours
   carries an order and is not fatigued, next to a fatigued driver *)
FatigueFixedAtStartWitness ==
    /\ result # <<>>
    /\ \E k, j \in DOMAIN drivers :
          /\ drivers[k].currentShiftHours = 8
          /\ result[1].driverAssignments[k].assignedOrders # <<>>
          /\ ~result[1].driverAssignments[k].isFatigued
          /\ drivers[j].currentShiftHours = 9
          /\ result[1].driverAssignments[j].isFatigued

(* C15: for an order carried by a fatigued driver the delivery instant is
   the start plus exactly 1.3 times the route's adjusted time, fractions
   of a minute included (offsets compared in tenths of a minute). *)
FatiguedOffsetExact ==
    result # <<>> =>
        \A k \in DOMAIN orders :
            LET as == result[1].driverAssignments
                d == FindAssignedDriver(as, orders[k].orderId)
                route == RouteOfOrder(k)
            IN  (d # 0 /\ as[d].isFatigued) =>
                    10 * (CalculateDeliveryTime(startTime, route, TRUE) - startTime)
                        = 13 * AdjustedTime(route)

-----------------------------------------------------------------------------
(* Fuel cost and adjusted time *)

(* distance*5 + (distance*2 if the traffic is High), in tenths of a rupee,
   for the route of the order at position k *)
FuelOfOrder(k) ==
    LET route == RouteOfOrder(k)
    IN  Rupees(route.distance * 5)
          + (IF route.trafficLevel = "High" THEN Rupees(route.distance * 2) ELSE 0)

RECURSIVE FuelOfOrders(_)
FuelOfOrders(n) == IF n = 0 THEN 0 ELSE FuelOfOrders(n - 1) + FuelOfOrder(n)

(* C16: in a returned result the fuelCost of every OrderResult is
   distance*5 + (distance*2 if High) of the order's route, and the KPI
   fuelCost is the sum over all orders, assigned or not. *)
FuelCostRule ==
    result # <<>> =>
        /\ \A k \in DOMAIN orders :
              result[1].orderResults[k].fuelCost = FuelOfOrder(k)
        /\ result[1].kpis.fuelCost = FuelOfOrders(Len(orders))

(* C16 witness: a returned run with an unassigned order on a High-traffic
   route and an assigned order, both counted in the KPI *)
FuelCostRuleWitness ==
    /\ result # <<>>
    /\ \E k, j \in DOMAIN orders :
          /\ OnNoList(k)
          /\ RouteOfOrder(k).trafficLevel = "High"
          /\ result[1].orderResults[k].fuelCost = Rupees(350)
          /\ ~OnNoList(j)
          /\ result[1].kpis.fuelCost
                 = Rupees(350) + result[1].orderResults[j].fuelCost

(* 1.0, 1.2 and 1.5, in tenths *)
TrafficFactor(level) ==
    CASE level = "Low" -> 10
      [] level = "Medium" -> 12
      [] level = "High" -> 15

(* round(baseTime * m), half up: the integer a with a <= x + 1/2 < a + 1 *)
HalfUp(route) ==
    LET x10 == route.baseTime * TrafficFactor(route.trafficLevel)
    IN  CHOOSE a \in 0..(2 * route.baseTime) :
            10 * a <= x10 + 5 /\ x10 + 5 < 10 * (a + 1)

RECURSIVE SumHalfUp(_)
SumHalfUp(ids) ==
    IF ids = <<>> THEN 0
    ELSE SumHalfUp(Tail(ids)) + HalfUp(RouteOfOrder(Head(ids)))

(* C17: adjustedTime of every route is baseTime times 1.0, 1.2 or 1.5
   rounded half up; the hours a driver accumulates under the capacity check
   are the sum of these values and stay within maxHoursPerDay, and the
   delivery status of every order is the one its deadline gives for the
   start plus this value (times 1.3, truncated, for a fatigued driver). *)
AdjustedTimeHalfUp ==
    /\ \A k \in DOMAIN routes : AdjustedTime(routes[k]) = HalfUp(routes[k])
    /\ \A d \in DOMAIN assignments :
          /\ assignments[d].totalHours = SumHalfUp(assignments[d].assignedOrders)
          /\ assignments[d].totalHours <= input.maxHoursPerDay * 60
    /\ result # <<>> =>
          \A k \in DOMAIN orders :
              LET as == result[1].driverAssignments
                  d == FindAssignedDriver(as, orders[k].orderId)
                  base == HalfUp(RouteOfOrder(k))
                  offset == IF d # 0 /\ as[d].isFatigued
                            THEN (base * 13) \div 10 ELSE base
              IN  result[1].orderResults[k].deliveryStatus = "On Time"
                      <=> startTime + offset <= orders[k].deliveryTimestamp

(* C17 witness: a run started at 08:00 of day 0 with two hours per day; the
   order on R004 (39 min, High: 58.5 rounds to 59) is accepted and is Late
   for its 08:58 deadline, and the order on R005 (52 min, Medium: 62.4
   rounds to 62) no longer fits, 59 + 62 being over 120 minutes *)
AdjustedTimeHalfUpWitness ==
    /\ result # <<>>
    /\ input.maxHoursPerDay = 2
    /\ startTime = 8 * 60
    /\ ~result[1].driverAssignments[1].isFatigued
    /\ \E k, j \in DOMAIN orders :
          /\ orders[k].assignedRoute = "R004"
          /\ orders[k].deliveryTimestamp = 8 * 60 + 58
          /\ ~OnNoList(k)
          /\ result[1].orderResults[k].deliveryStatus = "Late"
          /\ orders[j].assignedRoute = "R005"
          /\ OnNoList(j)
          /\ result[1].driverAssignments[1].totalHours = 59

-----------------------------------------------------------------------------
(* Company rules of the README *)

(* C18: an order is charged the 50 penalty exactly when its delivery takes
   longer than its route's base time plus 10 minutes. *)
PenaltyBeyondBaseTime ==
    result # <<>> =>
        \A k \in DOMAIN orders :
            LET as == result[1].driverAssignments
                d == FindAssignedDriver(as, orders[k].orderId)
                route == RouteOfOrder(k)
                taken == CalculateDeliveryTime(startTime, route,
                                               DriverFatigue(as, d)) - startTime
            IN  result[1].orderResults[k].penalty = Rupees(50)
                    <=> taken > route.baseTime + 10

-----------------------------------------------------------------------------
(* Frame of a run *)

(* C19: once the queries have resolved, no step of the run changes the
   fetched driver, route and order collections: same elements, same order,
   same field values. *)
FetchedCollectionsUnchanged ==
    [][fetched = "ok" =>
           /\ drivers' = drivers
           /\ routes' = routes
           /\ orders' = orders]_vars

(* C19 witness: a returned run whose deadline sort reordered the orders
   and whose driver carries an order, the fetched list still in fetch
   order *)
FetchedCollectionsUnchangedWitness ==
    /\ result # <<>>
    /\ Len(orders) = 2
    /\ orders[1].deliveryTimestamp > orders[2].deliveryTimestamp
    /\ sortedOrders = <<orders[2], orders[1]>>
    /\ \E d \in DOMAIN drivers :
          result[1].driverAssignments[d].assignedOrders # <<>>

-----------------------------------------------------------------------------
(* Overlapping runs *)

(* C20: when a second call overlaps the first at their fetch suspension
   points, each call that returns returns the result of its own input on
   the snapshot it fetched, as if it had run alone, and no step of one call
   changes anything the other call holds. *)
RunsIsolated ==
    /\ [](/\ result # <<>> =>
                \E day \in Days :
                    /\ startTime = StartDate(day, ConcInput.startTime)
                    /\ result[1] = SimulationResultOf(ConcInput, drivers, routes,
                                                      orders, startTime)
          /\ other.result # <<>> =>
                other.result[1]
                    = SimulationResultOf(other.input[1], other.drivers,
                                         other.routes, other.orders,
                                         other.startTime))
    /\ [][\/ other' = other
          \/ UNCHANGED <<pc, input, fetched, drivers, routes, orders, startTime,
                         assignments, sortedOrders, idx, orderResults, result,
                         thrown, error>>]_vars

(* C20 witness: both calls have returned, the second one made with another
   input while the first awaited its queries, on another snapshot and with
   another result *)
RunsIsolatedWitness ==
    /\ result # <<>>
    /\ other.result # <<>>
    /\ other.input[1] # ConcInput
    /\ other.orders # orders
    /\ other.result[1] # result[1]

-----------------------------------------------------------------------------
(* Identification of the assigned driver *)

(* The drivers of the returned driverAssignments that the assignedDriver
   field of the result at position k designates *)
DriversDesignated(k) ==
    { d \in DOMAIN result[1].driverAssignments :
        result[1].driverAssignments[d].driverName
            = result[1].orderResults[k].assignedDriver }

(* C21: in a returned result the assignedDriver of every order designates
   exactly the one driver whose assignedOrders holds the order, and is the
   unassigned marker exactly when no list holds the order. *)
AssignedDriverIdentified ==
    result # <<>> =>
        \A k \in DOMAIN orders :
            LET d == FindAssignedDriver(result[1].driverAssignments,
                                        orders[k].orderId)
            IN  /\ result[1].orderResults[k].assignedDriver = "Unassigned"
                       <=> d = 0
                /\ d # 0 => DriversDesignated(k) = {d}

-----------------------------------------------------------------------------
(* Order of consideration *)

(* The position in sortedOrders of the order with the given id *)
TurnOf(orderId) ==
    CHOOSE p \in DOMAIN sortedOrders : sortedOrders[p].orderId = orderId

(* C22: the list the assignment loop walks holds every fetched order once,
   by ascending deadline, orders of equal deadline in fetch order; in every
   driver's assignedOrders the orders stand in the order of their turn, so
   with non-decreasing deadlines. *)
DeadlineOrder ==
    assignments # <<>> =>
        /\ Len(sortedOrders) = Len(orders)
        /\ \A k \in DOMAIN orders : \E p \in DOMAIN sortedOrders :
              sortedOrders[p] = orders[k]
        /\ \A p, q \in DOMAIN sortedOrders :
              p < q =>
                 \/ sortedOrders[p].deliveryTimestamp < sortedOrders[q].deliveryTimestamp
                 \/ /\ sortedOrders[p].deliveryTimestamp = sortedOrders[q].deliveryTimestamp
                    /\ sortedOrders[p].orderId < sortedOrders[q].orderId
        /\ \A d \in DOMAIN assignments :
              LET list == assignments[d].assignedOrders
              IN  \A i, j \in DOMAIN list :
                      i < j =>
                         /\ TurnOf(list[i]) < TurnOf(list[j])
                         /\ orders[list[i]].deliveryTimestamp
                                <= orders[list[j]].deliveryTimestamp

(* C22 witness: a returned run with two different orders of equal deadline,
   both on the list of one driver, in fetch order *)
DeadlineOrderWitness ==
    /\ result # <<>>
    /\ Len(orders) = 2
    /\ orders[1].deliveryTimestamp = orders[2].deliveryTimestamp
    /\ orders[1].assignedRoute # orders[2].assignedRoute
    /\ \E d \in DOMAIN assignments :
          result[1].driverAssignments[d].assignedOrders = <<1, 2>>

-----------------------------------------------------------------------------
(* Selection of the driver *)

(* max(0, 100 - (30 if fatigued) - 5 * orders held - 0.1 * distance held),
   in tenths *)
ScoreOf(a) ==
    LET raw == 100 * 10 - (IF a.isFatigued THEN 30 * 10 ELSE 0)
                 - 5 * 10 * Len(a.assignedOrders) - a.totalDistance
    IN  IF raw < 0 THEN 0 ELSE raw

(* The drivers that can take the route within maxHoursPerDay *)
FeasibleDrivers(route) ==
    { d \in DOMAIN assignments :
        assignments[d].totalHours + HalfUp(route) <= input.maxHoursPerDay * 60 }

(* C23: at the turn of an order with a known route, if some driver is
   feasible the order goes to exactly one feasible driver whose score, on
   the lists as they stand before the turn, is at least that of every
   feasible driver and strictly above that of every feasible driver before
   it in input order; if none is feasible no list changes. *)
BestDriverChosen ==
    [][(/\ pc = "loop"
        /\ idx <= Len(sortedOrders)
        /\ RouteMapHas(routes, sortedOrders[idx].assignedRoute)) =>
           LET order == sortedOrders[idx]
               route == RouteMapGet(routes, order.assignedRoute)
               feasible == FeasibleDrivers(route)
           IN  IF feasible = {}
               THEN assignments' = assignments
               ELSE \E b \in feasible :
                       /\ \A d \in DOMAIN assignments :
                             d # b => assignments'[d] = assignments[d]
                       /\ assignments'[b].assignedOrders
                              = Append(assignments[b].assignedOrders, order.orderId)
                       /\ \A d \in feasible :
                             /\ ScoreOf(assignments[b]) >= ScoreOf(assignments[d])
                             /\ d < b => ScoreOf(assignments[d]) < ScoreOf(assignments[b])
      ]_vars

(* C23 witness: three orders on the 1000 km route; after one order each
   both drivers score 0, and the third order went to the first driver *)
BestDriverChosenWitness ==
    /\ result # <<>>
    /\ Len(orders) = 3
    /\ \A k \in DOMAIN orders : orders[k].assignedRoute = "R010"
    /\ Len(result[1].driverAssignments[1].assignedOrders) = 2
    /\ Len(result[1].driverAssignments[2].assignedOrders) = 1
    /\ result[1].driverAssignments[1].assignedOrders[2] = sortedOrders[3].orderId

(* C24: the score of a driver is max(0, 100 - (30 if fatigued) - 5 per
   order already on its list - 0.1 per km already on its list), read from
   the driver's list as it stands, and is the same whatever the route of
   the candidate order. *)
DriverScoreRule ==
    \A d \in DOMAIN assignments :
        \A k \in DOMAIN routes :
            /\ CalculateDriverScore(assignments[d], routes[k]) = ScoreOf(assignments[d])
            /\ CalculateDriverScore(assignments[d], routes[k]) \in 0..(100 * 10)

(* C24 witness: during the loop a fatigued driver who holds one order of
   700 km has its score floored at 0 (70 - 5 - 70 is negative), next to a
   rested driver who holds one order of 25 km and scores 92.5 *)
DriverScoreRuleWitness ==
    /\ pc = "loop"
    /\ \E d, e \in DOMAIN assignments :
          /\ assignments[d].isFatigued
          /\ Len(assignments[d].assignedOrders) = 1
          /\ assignments[d].totalDistance = 700
          /\ CalculateDriverScore(assignments[d], routes[1]) = 0
          /\ ~assignments[e].isFatigued
          /\ Len(assignments[e].assignedOrders) = 1
          /\ assignments[e].totalDistance = 25
          /\ CalculateDriverScore(assignments[e], routes[2]) = 925

-----------------------------------------------------------------------------
(* Order of the steps of a run *)

(* Whether the input violates none of the three conditions *)
InputAcceptable ==
    ViolatedMessages(input, IsHHMM(input.startTime) \/ IsHMM(input.startTime)) = {}

(* C25: the queries are issued only from the validation step and only for
   an input that passed it; their outcome arrives only to a run that
   issued them; the assignment starts only from the check of the fetched
   collections, with at least one driver and one order fetched. *)
ValidationPrecedesFetch ==
    [][/\ (pc' = "fetch" /\ pc # "fetch") => (pc = "validate" /\ InputAcceptable)
       /\ fetched' # fetched => (pc = "fetch" /\ InputAcceptable)
       /\ (pc' = "assign" /\ pc # "assign") =>
             /\ pc = "fetched"
             /\ fetched = "ok"
             /\ Len(drivers) > 0
             /\ Len(orders) > 0
       /\ assignments' # assignments => (fetched = "ok" /\ pc \in {"assign", "loop"})
      ]_vars

(* C25 witness: an input with no available driver has been rejected and
   nothing was fetched *)
ValidationPrecedesFetchWitness ==
    /\ pc = "rejected"
    /\ input.availableDrivers <= 0
    /\ fetched = "no"
    /\ drivers = <<>> /\ routes = <<>> /\ orders = <<>>
    /\ error # <<>>

-----------------------------------------------------------------------------
(* Timing of the deliveries *)

(* The fatigue flag under which the order at position k is timed *)
FatigueOfHolder(k) ==
    LET d == FindAssignedDriver(result[1].driverAssignments, orders[k].orderId)
    IN  d # 0 /\ result[1].driverAssignments[d].isFatigued

(* C26: in a returned result two orders with the same adjusted time, the
   same deadline and the same fatigue flag have the same deliveryStatus,
   wherever they stand on their drivers' lists and whatever else those
   drivers carry; every order is timed from startTime. *)
StatusIndependentOfPosition ==
    result # <<>> =>
        \A j, k \in DOMAIN orders :
            (/\ AdjustedTime(RouteOfOrder(j)) = AdjustedTime(RouteOfOrder(k))
             /\ orders[j].deliveryTimestamp = orders[k].deliveryTimestamp
             /\ FatigueOfHolder(j) = FatigueOfHolder(k))
                => result[1].orderResults[j].deliveryStatus
                       = result[1].orderResults[k].deliveryStatus

(* C26 witness: a run started at 08:00 of day 0 in which one driver holds
   two orders on R001, both due at 08:54: the second on the list is On Time
   like the first *)
StatusIndependentOfPositionWitness ==
    /\ result # <<>>
    /\ startTime = 8 * 60
    /\ Len(orders) = 2
    /\ \A k \in DOMAIN orders :
          /\ orders[k].assignedRoute = "R001"
          /\ orders[k].deliveryTimestamp = 8 * 60 + 54
          /\ result[1].orderResults[k].deliveryStatus = "On Time"
    /\ \E d \in DOMAIN drivers :
          /\ ~result[1].driverAssignments[d].isFatigued
          /\ result[1].driverAssignments[d].assignedOrders = <<1, 2>>

-----------------------------------------------------------------------------
(* Unassigned orders *)

(* C27: in a returned result, for every order on no driver's list, each
   driver's hours plus the adjusted time of the order's route exceed
   maxHoursPerDay. *)
NoCapacityLeftForUnassigned ==
    result # <<>> =>
        \A k \in DOMAIN orders :
            OnNoList(k) =>
                \A d \in DOMAIN result[1].driverAssignments :
                    result[1].driverAssignments[d].totalHours
                        + HalfUp(RouteOfOrder(k)) > input.maxHoursPerDay * 60

(* C27 witness: a returned run with one hour per day in which every driver
   holds 54 minutes and a second order on R001 (54 minutes) is on no list *)
NoCapacityLeftForUnassignedWitness ==
    /\ result # <<>>
    /\ input.maxHoursPerDay = 1
    /\ \E k, j \in DOMAIN orders :
          /\ OnNoList(k)
          /\ ~OnNoList(j)
          /\ orders[k].assignedRoute = "R001"
          /\ \A d \in DOMAIN result[1].driverAssignments :
                result[1].driverAssignments[d].totalHours = 54

-----------------------------------------------------------------------------
(* Shape of the result *)

(* C28: a returned result holds one OrderResult per fetched order, at the
   order's position in the fetch, the on-time and late counts add up to
   the number of orders, and penalties is 50 times the late count. *)
OneResultPerOrder ==
    result # <<>> =>
        LET rs == result[1].orderResults
            kpis == result[1].kpis
        IN  /\ Len(rs) = Len(orders)
            /\ \A k \in DOMAIN orders :
                  /\ rs[k].orderId = orders[k].orderId
                  /\ rs[k].routeId = orders[k].assignedRoute
                  /\ rs[k].orderValue = orders[k].value
            /\ kpis.onTimeDeliveries + kpis.lateDeliveries = Len(orders)
            /\ kpis.lateDeliveries
                   = Cardinality({ k \in DOMAIN rs : rs[k].deliveryStatus = "Late" })
            /\ kpis.penalties = Rupees(50) * kpis.lateDeliveries

(* C28 witness: a returned run whose second fetched order has the earlier
   deadline and is the only late one: the results stand in fetch order and
   penalties is 50 *)
OneResultPerOrderWitness ==
    /\ result # <<>>
    /\ Len(orders) = 2
    /\ orders[1].deliveryTimestamp > orders[2].deliveryTimestamp
    /\ sortedOrders[1].orderId = 2
    /\ result[1].orderResults[1].deliveryStatus = "On Time"
    /\ result[1].orderResults[2].deliveryStatus = "Late"
    /\ result[1].kpis.penalties = Rupees(50)

-----------------------------------------------------------------------------
(* The database *)

(* C29: after any sequence of successful route and order requests, every
   stored order's assignedRoute is the routeId of a stored route. *)
ReferentialIntegrity ==
    \A k \in DOMAIN store.orders :
        HasRoute(store.routes, store.orders[k].assignedRoute)

(* C30: while routes and orders are only created, so that every stored
   order references a stored route at every instant, a run never fetches
   an order whose route is missing from the routes it fetched and never
   fails with a route-not-found error. *)
SnapshotConsistent ==
    fetched = "ok" =>
        /\ \A k \in DOMAIN orders : RouteMapHas(routes, orders[k].assignedRoute)
        /\ thrown # <<>> =>
              ~\E id \in RouteIds :
                  thrown[1].message = "Route " \o id \o " not found"

=============================================================================
